---- MODULE Spec2Model ----
(***************************************************************************)
(* A model of src/app.py of the solar dashboard: the location resolver     *)
(* get_coordinates, the timezone resolver get_local_timezone, the          *)
(* sunrise/sunset scan find_sunrise_sunset and the callback                *)
(* update_dashboard that chains them.                                      *)
(*                                                                         *)
(* Three specifications share the variables:                               *)
(*   SpecGeo   get_coordinates called on its own, statement by statement;  *)
(*   SpecScan  find_sunrise_sunset called on its own, one sample per step; *)
(*   Spec      one update_dashboard request, which runs the very same      *)
(*             get_coordinates actions and folds the very same loop body   *)
(*             of find_sunrise_sunset (ScanStep) over a day's samples.     *)
(*                                                                         *)
(* The external collaborators (Nominatim, TimezoneFinder, pytz.timezone,   *)
(* pysolar.get_altitude) are oracles: each call returns one of the         *)
(* outcomes the library can produce, a raised exception included.          *)
(***************************************************************************)
EXTENDS Integers, Sequences, FiniteSets, TLC

VARIABLES
    \* update_dashboard (src/app.py:128-256)
    pc, location_text, coords, tz_name, local_tz, season_idx, calls,
    seasonal_fig, sunrise_sunset_fig, status,
    \* get_coordinates (src/app.py:23-51)
    gc_pc, gc_location_text, city_only, geolocator, queries, gc_ret,
    \* find_sunrise_sunset (src/app.py:59-70)
    fs_pc, tz, minute, samples, sunrise, sunset

ud_vars == <<pc, location_text, coords, tz_name, local_tz, season_idx, calls,
             seasonal_fig, sunrise_sunset_fig, status>>
gc_vars == <<gc_pc, gc_location_text, city_only, geolocator, queries, gc_ret>>
fs_vars == <<fs_pc, tz, minute, samples, sunrise, sunset>>
vars == <<ud_vars, gc_vars, fs_vars>>

(***************************************************************************)
(* Bounds of the model.                                                    *)
(***************************************************************************)
\* longest location text given to get_coordinates in SpecGeo
MaxLen == 3
\* longest location text typed into the dashboard in Spec
DashLen == 2
\* samples scanned per civil day; stands for range(0, 1440)
SamplesPerDay == 5
\* largest daylight-saving shift of a timezone, in samples
MaxShift == 2

\* Python's None
None == [none |-> TRUE]

(***************************************************************************)
(* Strings are sequences of characters.  The alphabet has a blank, the     *)
(* comma get_coordinates splits on, and one letter in both cases.          *)
(***************************************************************************)
Chars == {" ", ",", "a", "A"}

RECURSIVE TextsOfLen(_)
TextsOfLen(n) ==
    IF n = 0 THEN {<<>>}
    ELSE {Append(s, c) : s \in TextsOfLen(n - 1), c \in Chars}

TextsUpTo(n) == UNION {TextsOfLen(k) : k \in 0..n}

IsSpace(c) == c = " "
IsCased(c) == c \in {"a", "A"}
Upper(c) == IF c = "a" THEN "A" ELSE c
Lower(c) == IF c = "A" THEN "a" ELSE c

\* str.strip(): drop the leading and the trailing whitespace
RECURSIVE LStrip(_)
LStrip(s) ==
    IF s # <<>> /\ IsSpace(Head(s)) THEN LStrip(Tail(s)) ELSE s

RECURSIVE RStrip(_)
RStrip(s) ==
    IF s # <<>> /\ IsSpace(s[Len(s)]) THEN RStrip(SubSeq(s, 1, Len(s) - 1)) ELSE s

Strip(s) == RStrip(LStrip(s))

\* str.title(): a cased character is upper-cased when the character before
\* it is not cased, and lower-cased when it is
Title(s) ==
    [i \in 1..Len(s) |->
        IF ~IsCased(s[i]) THEN s[i]
        ELSE IF i > 1 /\ IsCased(s[i - 1]) THEN Lower(s[i])
        ELSE Upper(s[i])]

\* s.split(",")[0]: the text before the first comma, all of it without one
RECURSIVE SplitFirst(_)
SplitFirst(s) ==
    IF s = <<>> \/ Head(s) = "," THEN <<>>
    ELSE <<Head(s)>> \o SplitFirst(Tail(s))

\* the literal ", United States" of the third attempt
UnitedStates ==
    <<",", " ", "U", "n", "i", "t", "e", "d", " ", "S", "t", "a", "t", "e", "s">>

(***************************************************************************)
(* The geocoder.  geolocator[i] is what the i-th geocode() call of this    *)
(* request does: return a Location, return None, or raise (a timeout, a    *)
(* service error).                                                         *)
(***************************************************************************)
Raises == [raises |-> TRUE]

Places ==
    { [latitude |-> 46, longitude |-> -120, address |-> "Yakima, Washington, United States"],
      [latitude |-> 35, longitude |-> 139, address |-> "Tokyo, Japan"] }

GeocodeOutcomes == Places \cup {None, Raises}

Attempts == 1..3

Geolocators == [Attempts -> GeocodeOutcomes]

\* a try block that covers the first attempt only
TryBlockFirstOnly == {"full"}

\* the statements of get_coordinates the try block (lines 27-46) covers
TryBlock == {"full", "city", "country"}

\* where control goes when geocode() raises at statement `at`
OnRaise(at) == IF at \in TryBlock THEN "except" ELSE "propagated"

\* the tuple get_coordinates returns for a Location (lines 32, 39, 45)
AsTuple(location) ==
    [latitude |-> location.latitude, longitude |-> location.longitude,
     address |-> location.address]

\* geocode() without the `return` under `if location:`: the result is kept
\* and the chain goes on
GeocodeKeepGoing(at, query, next) ==
    LET outcome == geolocator[Len(queries) + 1] IN
    /\ queries' = Append(queries, query)
    /\ IF outcome = Raises
       THEN gc_pc' = OnRaise(at) /\ gc_ret' = gc_ret
       ELSE IF outcome # None
       THEN gc_pc' = next /\ gc_ret' = AsTuple(outcome)
       ELSE gc_pc' = next /\ gc_ret' = gc_ret

\* one geocode() call at statement `at` with text `query`: the call is
\* logged; a result returns from the function, None moves on to `next`
Geocode(at, query, next) ==
    LET outcome == geolocator[Len(queries) + 1] IN
    /\ queries' = Append(queries, query)
    /\ IF outcome = Raises
       THEN gc_pc' = OnRaise(at) /\ gc_ret' = gc_ret
       ELSE IF outcome # None
       THEN gc_pc' = "returned" /\ gc_ret' = AsTuple(outcome)
       ELSE gc_pc' = next /\ gc_ret' = gc_ret

\* lines 24-25: location_text = location_text.strip().title()
GcNormalize ==
    /\ gc_pc = "entry"
    /\ gc_location_text' = Title(Strip(gc_location_text))
    /\ gc_pc' = "full"
    /\ UNCHANGED <<city_only, geolocator, queries, gc_ret>>

\* lines 29-32: try the full input
GcTryFull ==
    /\ gc_pc = "full"
    /\ Geocode("full", gc_location_text, "city")
    /\ UNCHANGED <<gc_location_text, city_only, geolocator>>

\* lines 35-39: fallback, just the city name
GcTryCity ==
    /\ gc_pc = "city"
    /\ city_only' = SplitFirst(gc_location_text)
    /\ Geocode("city", SplitFirst(gc_location_text), "country")
    /\ UNCHANGED <<gc_location_text, geolocator>>

\* lines 42-45: fallback, guess the country
GcTryCountry ==
    /\ gc_pc = "country"
    /\ Geocode("country", city_only \o UnitedStates, "end")
    /\ UNCHANGED <<gc_location_text, city_only, geolocator>>

\* lines 47-49: except Exception: return None
GcExcept ==
    /\ gc_pc = "except"
    /\ gc_ret' = None
    /\ gc_pc' = "returned"
    /\ UNCHANGED <<gc_location_text, city_only, geolocator, queries>>

\* line 51: return None
GcReturnNone ==
    /\ gc_pc = "end"
    /\ gc_ret' = None
    /\ gc_pc' = "returned"
    /\ UNCHANGED <<gc_location_text, city_only, geolocator, queries>>

\* the state of the variables of a function that is not running
GcIdle ==
    /\ gc_pc = "idle"
    /\ gc_location_text = <<>>
    /\ city_only = <<>>
    /\ geolocator = [i \in Attempts |-> None]
    /\ queries = <<>>
    /\ gc_ret = None

FsIdle ==
    /\ fs_pc = "idle"
    /\ tz = None
    /\ minute = 0
    /\ samples = <<>>
    /\ sunrise = None
    /\ sunset = None

UdIdle ==
    /\ pc = "idle"
    /\ location_text = <<>>
    /\ coords = None
    /\ tz_name = None
    /\ local_tz = None
    /\ season_idx = 0
    /\ calls = <<>>
    /\ seasonal_fig = <<>>
    /\ sunrise_sunset_fig = <<>>
    /\ status = None


(***************************************************************************)
(* find_sunrise_sunset(lat, lon, date, tz).                                *)
(*                                                                         *)
(* A DayRule is what the timezone does on the scanned civil date: nothing  *)
(* ("fixed"), or a daylight-saving transition at local sample `at` by      *)
(* `shift` samples: "forward" (the local times at .. at+shift-1 do not     *)
(* exist) or "back" (they happen twice).                                   *)
(***************************************************************************)
FixedDay == [kind |-> "fixed", at |-> 0, shift |-> 0]

DayRules ==
    {FixedDay} \cup
    { [kind |-> k, at |-> t, shift |-> d] :
        k \in {"forward", "back"}, t \in 0..(SamplesPerDay - 1), d \in 1..MaxShift }

\* line 63-64: tz.localize(naive) then .astimezone(pytz.utc), as a number of
\* samples after the UTC instant of the day's first sample.  localize() is
\* called with its default is_dst=False: a local time that does not exist
\* gets the offset in force before the transition, a local time that
\* happens twice is taken as its second occurrence.
UtcOf(rule, m) ==
    IF rule.kind = "forward" THEN (IF m < rule.at + rule.shift THEN m ELSE m - rule.shift)
    ELSE IF rule.kind = "back" THEN (IF m < rule.at THEN m ELSE m + rule.shift)
    ELSE m

\* line 63: dt_local, an aware datetime: its wall-clock sample and its instant
Localize(rule, m) == [minute |-> m, utc |-> UtcOf(rule, m)]

\* the values get_altitude returns, by sign and size
Altitudes == {-1, 0, 1, 2}

\* the loop body with `altitude >= 0` for `altitude > 0`
ScanStepNonStrict(acc, dt_local, altitude) ==
    LET rise == IF altitude >= 0 /\ acc.sunrise = None THEN dt_local ELSE acc.sunrise
        set  == IF altitude < 0 /\ rise # None /\ acc.sunset = None
                THEN dt_local ELSE acc.sunset
    IN [sunrise |-> rise, sunset |-> set]

\* the loop body without `and sunrise` in the sunset test
ScanStepNoSunriseGuard(acc, dt_local, altitude) ==
    LET rise == IF altitude > 0 /\ acc.sunrise = None THEN dt_local ELSE acc.sunrise
        set  == IF altitude < 0 /\ acc.sunset = None
                THEN dt_local ELSE acc.sunset
    IN [sunrise |-> rise, sunset |-> set]

\* lines 66-69, the loop body: `acc` holds sunrise and sunset so far
ScanStep(acc, dt_local, altitude) ==
    LET rise == IF altitude > 0 /\ acc.sunrise = None THEN dt_local ELSE acc.sunrise
        set  == IF altitude < 0 /\ rise # None /\ acc.sunset = None
                THEN dt_local ELSE acc.sunset
    IN [sunrise |-> rise, sunset |-> set]

\* lines 62-70 on a whole day: alt[u] is get_altitude at UTC sample u
RECURSIVE ScanFrom(_, _, _, _)
ScanFrom(rule, alt, m, acc) ==
    IF m >= SamplesPerDay THEN acc
    ELSE ScanFrom(rule, alt, m + 1,
                  ScanStep(acc, Localize(rule, m), alt[UtcOf(rule, m)]))

FindSunriseSunset(rule, alt) ==
    ScanFrom(rule, alt, 0, [sunrise |-> None, sunset |-> None])

\* get_altitude is a function of the UTC instant: a sample whose instant was
\* already evaluated in this scan has the altitude it had then
AltitudeAt(m) ==
    LET seen == {k \in 0..(m - 1) : UtcOf(tz, k) = UtcOf(tz, m)} IN
    IF seen = {} THEN Altitudes
    ELSE {samples[k + 1] : k \in seen}

\* lines 62-69: one iteration of the scan
FsSample ==
    /\ fs_pc = "scan"
    /\ minute < SamplesPerDay
    /\ \E altitude \in AltitudeAt(minute) :
        LET acc == ScanStep([sunrise |-> sunrise, sunset |-> sunset],
                            Localize(tz, minute), altitude)
        IN /\ samples' = Append(samples, altitude)
           /\ sunrise' = acc.sunrise
           /\ sunset' = acc.sunset
    /\ minute' = minute + 1
    /\ UNCHANGED <<fs_pc, tz>>

\* line 70: return sunrise, sunset
FsReturn ==
    /\ fs_pc = "scan"
    /\ minute = SamplesPerDay
    /\ fs_pc' = "returned"
    /\ UNCHANGED <<tz, minute, samples, sunrise, sunset>>

(***************************************************************************)
(* get_local_timezone(lat, lon) and update_dashboard(n_clicks,             *)
(* location_text).                                                         *)
(***************************************************************************)
\* pytz.utc, and the zones the timezone dataset can name
Utc == [zone |-> "UTC"]
ZoneNames == { [zone |-> "Asia/Tokyo"], [zone |-> "America/Los_Angeles"] }

\* the zone's offset from UTC, in hours, in the given month of 2025
UtcOffset(zone, month) ==
    IF zone.zone = "Asia/Tokyo" THEN 9
    ELSE IF zone.zone = "America/Los_Angeles" THEN (IF month = 12 THEN -8 ELSE -7)
    ELSE 0

\* none of the modelled zones has a transition on one of the four dates
DayRule(zone, date) == FixedDay

\* lines 139-144: seasons, in the dict's insertion order
seasons ==
    << [name |-> "Spring", month |-> 3,  day |-> 20, hour |-> 12],
       [name |-> "Summer", month |-> 6,  day |-> 20, hour |-> 12],
       [name |-> "Fall",   month |-> 9,  day |-> 22, hour |-> 12],
       [name |-> "Winter", month |-> 12, day |-> 21, hour |-> 12] >>

\* the scanned sample that is 12:00 local (minute 720 of 1440)
NoonSample == SamplesPerDay \div 2

\* a day's altitude by UTC sample, as get_altitude may answer: the sun
\* never up, up around noon only, never down
DayProfiles ==
    { [u \in 0..(SamplesPerDay - 1) |-> -1],
      [u \in 0..(SamplesPerDay - 1) |->
          IF u = 0 \/ u = SamplesPerDay - 1 THEN -1
          ELSE IF u = NoonSample THEN 2 ELSE 1],
      [u \in 0..(SamplesPerDay - 1) |-> IF u = NoonSample THEN 2 ELSE 1] }

\* one call of a downstream component, as update_dashboard makes it
Call(fn, date, utc_hour) == [fn |-> fn, date |-> date, utc_hour |-> utc_hour]
NoDate == <<0, 0>>

\* line 129: `if not location_text`
IsEmptyText(text) == text = <<>>

\* `if not coords` that never takes the branch
NotFoundNever(c) == FALSE

\* line 133: `if not coords`
NotFound(c) == c = None

\* line 128: the callback fires with the text of the input box
UdSubmit ==
    /\ pc = "idle"
    /\ \E text \in TextsUpTo(DashLen) : location_text' = text
    /\ pc' = "check"
    /\ UNCHANGED <<coords, tz_name, local_tz, season_idx, calls,
                   seasonal_fig, sunrise_sunset_fig, status>>
    /\ UNCHANGED <<gc_vars, fs_vars>>

\* lines 129-130: no text, return the prompt and empty figures
UdEmptyText ==
    /\ pc = "check"
    /\ IsEmptyText(location_text)
    /\ status' = [message |-> "Please enter a city and country.", text |-> <<>>]
    /\ seasonal_fig' = <<>>
    /\ sunrise_sunset_fig' = <<>>
    /\ pc' = "returned"
    /\ UNCHANGED <<location_text, coords, tz_name, local_tz, season_idx, calls>>
    /\ UNCHANGED <<gc_vars, fs_vars>>

\* line 132: coords = get_coordinates(location_text), the call
UdCallGetCoordinates ==
    /\ pc = "check"
    /\ ~IsEmptyText(location_text)
    /\ pc' = "get_coordinates"
    /\ gc_pc' = "entry"
    /\ gc_location_text' = location_text
    /\ geolocator' \in Geolocators
    /\ UNCHANGED <<city_only, queries, gc_ret>>
    /\ UNCHANGED <<location_text, coords, tz_name, local_tz, season_idx, calls,
                   seasonal_fig, sunrise_sunset_fig, status>>
    /\ UNCHANGED fs_vars

\* lines 132-136: the call returns; not found returns the message and
\* empty figures
UdCoords ==
    /\ pc = "get_coordinates"
    /\ gc_pc = "returned"
    /\ coords' = gc_ret
    /\ IF NotFound(gc_ret)
       THEN /\ status' = [message |-> "Could not find location: ", text |-> location_text]
            /\ seasonal_fig' = <<>>
            /\ sunrise_sunset_fig' = <<>>
            /\ pc' = "returned"
       ELSE /\ pc' = "timezone"
            /\ UNCHANGED <<status, seasonal_fig, sunrise_sunset_fig>>
    /\ gc_pc' = "idle"
    /\ gc_location_text' = <<>>
    /\ city_only' = <<>>
    /\ geolocator' = [i \in Attempts |-> None]
    /\ queries' = <<>>
    /\ gc_ret' = None
    /\ UNCHANGED <<location_text, tz_name, local_tz, season_idx, calls>>
    /\ UNCHANGED fs_vars

\* lines 137, 55-56: get_local_timezone is called; tf.timezone_at returns a
\* zone name or None, or raises, and nothing in get_local_timezone or in
\* update_dashboard catches it
TzLookup ==
    /\ pc = "timezone"
    /\ calls' = Append(calls, Call("get_local_timezone", NoDate, 0))
    /\ \E found \in ZoneNames \cup {None, Raises} :
        IF found = Raises
        THEN pc' = "raised" /\ tz_name' = tz_name
        ELSE pc' = "timezone_return" /\ tz_name' = found
    /\ UNCHANGED <<location_text, coords, local_tz, season_idx,
                   seasonal_fig, sunrise_sunset_fig, status>>
    /\ UNCHANGED <<gc_vars, fs_vars>>

\* line 57: return pytz.timezone(tz_name) if tz_name else pytz.utc;
\* pytz.timezone raises UnknownTimeZoneError for a name it does not know
TzReturn ==
    /\ pc = "timezone_return"
    /\ \E known \in BOOLEAN :
        IF tz_name = None
        THEN pc' = "seasons" /\ local_tz' = Utc
        ELSE IF known
        THEN pc' = "seasons" /\ local_tz' = tz_name
        ELSE pc' = "raised" /\ local_tz' = local_tz
    /\ UNCHANGED <<location_text, coords, tz_name, season_idx, calls,
                   seasonal_fig, sunrise_sunset_fig, status>>
    /\ UNCHANGED <<gc_vars, fs_vars>>

\* lines 164-171: the season's altitude bar
AltitudeBar(name, altitude) ==
    [x |-> name, name |-> name, y |-> altitude, text |-> ToString(altitude)]

\* lines 161-162, 173-188: a sunrise or sunset bar; N/A and 0 when absent
EventBar(name, kind, dt) ==
    [x |-> name, name |-> kind,
     y |-> IF dt # None THEN dt.minute ELSE 0,
     text |-> IF dt # None THEN ToString(dt.minute) ELSE "N/A"]

\* lines 155-188: one iteration of the loop over seasons.items()
UdSeason ==
    /\ pc = "seasons"
    /\ season_idx < Len(seasons)
    /\ \E alt \in DayProfiles :
        LET s        == seasons[season_idx + 1]
            date     == <<s.month, s.day>>
            utc_hour == s.hour - UtcOffset(local_tz, s.month)
            rule     == DayRule(local_tz, date)
            altitude == alt[UtcOf(rule, NoonSample)]
            events   == FindSunriseSunset(rule, alt)
        IN /\ calls' = calls \o << Call("get_altitude", date, utc_hour),
                                   Call("find_sunrise_sunset", date, 0) >>
           /\ seasonal_fig' = Append(seasonal_fig, AltitudeBar(s.name, altitude))
           /\ sunrise_sunset_fig' = sunrise_sunset_fig \o
                 << EventBar(s.name, "Sunrise", events.sunrise),
                    EventBar(s.name, "Sunset", events.sunset) >>
    /\ season_idx' = season_idx + 1
    /\ UNCHANGED <<pc, location_text, coords, tz_name, local_tz, status>>
    /\ UNCHANGED <<gc_vars, fs_vars>>

\* lines 190-256: yesterday's altitude series (one log entry stands for its
\* 96 get_altitude calls), the altitude and azimuth of today's noon (in
\* whatever month datetime.now falls), the calendar, and the return with an
\* empty status
UdFinish ==
    /\ pc = "seasons"
    /\ season_idx = Len(seasons)
    /\ \E month \in 1..12 :
        calls' = calls \o << Call("get_altitude", NoDate, 0),
                             Call("get_altitude", NoDate, 12 - UtcOffset(local_tz, month)),
                             Call("get_azimuth", NoDate, 12 - UtcOffset(local_tz, month)) >>
    /\ status' = [message |-> "", text |-> <<>>]
    /\ pc' = "returned"
    /\ UNCHANGED <<location_text, coords, tz_name, local_tz, season_idx,
                   seasonal_fig, sunrise_sunset_fig>>
    /\ UNCHANGED <<gc_vars, fs_vars>>

(***************************************************************************)
(* Spec: one update_dashboard request.                                     *)
(***************************************************************************)
Init == UdIdle /\ GcIdle /\ FsIdle

Next ==
    \/ UdSubmit
    \/ UdEmptyText
    \/ UdCallGetCoordinates
    \/ GcNormalize /\ UNCHANGED <<ud_vars, fs_vars>>
    \/ GcTryFull /\ UNCHANGED <<ud_vars, fs_vars>>
    \/ GcTryCity /\ UNCHANGED <<ud_vars, fs_vars>>
    \/ GcTryCountry /\ UNCHANGED <<ud_vars, fs_vars>>
    \/ GcExcept /\ UNCHANGED <<ud_vars, fs_vars>>
    \/ GcReturnNone /\ UNCHANGED <<ud_vars, fs_vars>>
    \/ UdCoords
    \/ TzLookup
    \/ TzReturn
    \/ UdSeason
    \/ UdFinish

Spec == Init /\ [][Next]_vars

(***************************************************************************)
(* SpecGeo: update_dashboard has called get_coordinates(location_text) on  *)
(* a non-empty text (line 132); the function runs to its return.           *)
(***************************************************************************)
InitGeo ==
    /\ FsIdle
    /\ pc = "get_coordinates"
    /\ location_text \in TextsUpTo(MaxLen) \ {<<>>}
    /\ coords = None
    /\ tz_name = None
    /\ local_tz = None
    /\ season_idx = 0
    /\ calls = <<>>
    /\ seasonal_fig = <<>>
    /\ sunrise_sunset_fig = <<>>
    /\ status = None
    /\ gc_pc = "entry"
    /\ gc_location_text = location_text
    /\ city_only = <<>>
    /\ geolocator \in Geolocators
    /\ queries = <<>>
    /\ gc_ret = None

NextGeo ==
    \/ GcNormalize /\ UNCHANGED <<ud_vars, fs_vars>>
    \/ GcTryFull /\ UNCHANGED <<ud_vars, fs_vars>>
    \/ GcTryCity /\ UNCHANGED <<ud_vars, fs_vars>>
    \/ GcTryCountry /\ UNCHANGED <<ud_vars, fs_vars>>
    \/ GcExcept /\ UNCHANGED <<ud_vars, fs_vars>>
    \/ GcReturnNone /\ UNCHANGED <<ud_vars, fs_vars>>

SpecGeo == InitGeo /\ [][NextGeo]_vars

(***************************************************************************)
(* SpecScan: find_sunrise_sunset on one civil day of one timezone.         *)
(***************************************************************************)
InitScan ==
    /\ UdIdle
    /\ GcIdle
    /\ fs_pc = "scan"
    /\ tz \in DayRules
    /\ minute = 0
    /\ samples = <<>>
    /\ sunrise = None
    /\ sunset = None

NextScan ==
    \/ FsSample /\ UNCHANGED <<ud_vars, gc_vars>>
    \/ FsReturn /\ UNCHANGED <<ud_vars, gc_vars>>

SpecScan == InitScan /\ [][NextScan]_vars

(***************************************************************************)
(* Properties of get_coordinates, checked under SpecGeo.                   *)
(***************************************************************************)
\* q is text without its leading and trailing blanks, in title case
TrimmedTitle(q, text) ==
    \E i \in 1..(Len(text) + 1), j \in 0..Len(text) :
        /\ j >= i - 1
        /\ Len(q) = j - i + 1
        /\ \A k \in 1..(i - 1) : text[k] = " "
        /\ \A k \in (j + 1)..Len(text) : text[k] = " "
        /\ i <= j => (text[i] # " " /\ text[j] # " ")
        /\ \A k \in 1..Len(q) :
            LET c == text[i + k - 1] IN
            IF c \in {"a", "A"}
            THEN q[k] = (IF k > 1 /\ text[i + k - 2] \in {"a", "A"} THEN "a" ELSE "A")
            ELSE q[k] = c

\* q is the part of full before its first comma
BeforeFirstComma(q, full) ==
    /\ Len(q) <= Len(full)
    /\ \A k \in 1..Len(q) : q[k] = full[k] /\ q[k] # ","
    /\ Len(q) < Len(full) => full[Len(q) + 1] = ","

\* what get_coordinates returns for the geocoder's answer
Returned(location) ==
    [latitude |-> location.latitude, longitude |-> location.longitude,
     address |-> location.address]

\* C1: the geocoder is queried with (1) the trimmed, title-cased text, (2)
\* its part before the first comma, (3) that part followed by
\* ", United States", in this order; an attempt that yields a result is the
\* last attempt made and its latitude, longitude and address are returned.
C1_FallbackOrder ==
    /\ Len(queries) <= 3
    /\ Len(queries) >= 1 => TrimmedTitle(queries[1], location_text)
    /\ Len(queries) >= 2 => BeforeFirstComma(queries[2], queries[1])
    /\ Len(queries) >= 3 => queries[3] = queries[2] \o UnitedStates
    /\ \A i \in 1..Len(queries) :
        geolocator[i] \in Places =>
            /\ i = Len(queries)
            /\ gc_pc = "returned"
            /\ gc_ret = Returned(geolocator[i])
    /\ (gc_pc = "returned" /\ gc_ret # None) =>
            /\ Len(queries) >= 1
            /\ geolocator[Len(queries)] \in Places

\* the third attempt succeeds on a text that normalisation and the split change
C1_Witness ==
    /\ gc_pc = "returned"
    /\ Len(queries) = 3
    /\ gc_ret # None
    /\ queries[1] # location_text
    /\ queries[2] # queries[1]

\* C2: an attempt that raises counts as an attempt without result: the
\* first attempt that would yield a Location, all earlier ones having
\* returned nothing or raised, determines the returned Location.
C2_ExceptionLikeNoResult ==
    gc_pc = "returned" =>
        \A i \in Attempts :
            (geolocator[i] \in Places /\ \A j \in 1..(i - 1) : geolocator[j] \notin Places)
                => gc_ret = Returned(geolocator[i])

\* C3: on a non-empty text and for any behaviour of the geocoder,
\* get_coordinates makes at most three attempts, always reaches its return,
\* raises nothing to its caller, and returns None when no attempt it made
\* yielded a result (three attempts when all three yield None).
C3_BoundedNeverRaises ==
    /\ Len(queries) <= 3
    /\ gc_pc # "propagated"
    /\ gc_pc # "returned" => ENABLED NextGeo
    /\ gc_pc = "returned" =>
        /\ (\A i \in 1..Len(queries) : geolocator[i] \notin Places) => gc_ret = None
        /\ (\A i \in Attempts : geolocator[i] = None) => Len(queries) = 3

\* all three attempts were made and none found anything
C3_Witness ==
    /\ gc_pc = "returned"
    /\ Len(queries) = 3
    /\ \A i \in Attempts : geolocator[i] = None
    /\ gc_ret = None

(***************************************************************************)
(* Properties of update_dashboard, checked under Spec.                     *)
(***************************************************************************)
\* C4: get_local_timezone never fails its caller: the request never ends
\* with an exception raised by the timezone lookup or by pytz.timezone, and
\* a lookup that finds no zone gives UTC.
C4_TimezoneNeverFails ==
    /\ pc # "raised"
    /\ (pc \in {"seasons", "returned"} /\ coords # None /\ tz_name = None)
            => local_tz = Utc

\* C5: with an empty text, or with get_coordinates returning None, no
\* downstream component is ever called and the request returns the status
\* message with empty figures.
C5_ShortCircuit ==
    /\ (location_text = <<>> \/ coords = None) => calls = <<>>
    /\ (pc = "returned" /\ location_text = <<>>) =>
            /\ status = [message |-> "Please enter a city and country.", text |-> <<>>]
            /\ seasonal_fig = <<>> /\ sunrise_sunset_fig = <<>>
    /\ (pc = "returned" /\ location_text # <<>> /\ coords = None) =>
            /\ status = [message |-> "Could not find location: ", text |-> location_text]
            /\ seasonal_fig = <<>> /\ sunrise_sunset_fig = <<>>

\* the request of a non-empty text ended with the not-found message
C5_Witness ==
    /\ pc = "returned"
    /\ location_text # <<>>
    /\ coords = None
    /\ status # None
    /\ status.message = "Could not find location: "

\* the four snapshots were evaluated and appended in the order Spring,
\* Summer, Fall, Winter: for each, get_altitude at 12:00 local in UTC, then
\* find_sunrise_sunset for the same date; one altitude bar, then a sunrise
\* and a sunset bar
FourSeasonsEvaluated ==
    /\ Len(seasonal_fig) = 4
    /\ Len(sunrise_sunset_fig) = 8
    /\ Len(calls) >= 9
    /\ \A i \in 1..4 :
        LET s == seasons[i] IN
        /\ s.name = <<"Spring", "Summer", "Fall", "Winter">>[i]
        /\ seasonal_fig[i].x = s.name
        /\ sunrise_sunset_fig[2 * i - 1].x = s.name
        /\ sunrise_sunset_fig[2 * i - 1].name = "Sunrise"
        /\ sunrise_sunset_fig[2 * i].x = s.name
        /\ sunrise_sunset_fig[2 * i].name = "Sunset"
        /\ calls[2 * i] = Call("get_altitude", <<s.month, s.day>>,
                               12 - UtcOffset(local_tz, s.month))
        /\ calls[2 * i + 1] = Call("find_sunrise_sunset", <<s.month, s.day>>, 0)

\* C10: every request whose location was resolved evaluates exactly the four
\* seasonal snapshots, in the order Spring, Summer, Fall, Winter.
C10_FourSeasonsInOrder ==
    (pc \in {"returned", "raised"} /\ coords # None) => FourSeasonsEvaluated

\* the same for the requests that reach the return of line 256
FourSeasonsOnReturn ==
    (pc = "returned" /\ coords # None) => FourSeasonsEvaluated

(***************************************************************************)
(* Properties of find_sunrise_sunset, checked under SpecScan.              *)
(***************************************************************************)
Positive == {i \in 1..Len(samples) : samples[i] > 0}
FirstPositive == CHOOSE i \in Positive : \A j \in Positive : i <= j
NegativeAfter(i) == {k \in 1..Len(samples) : k > i /\ samples[k] < 0}
FirstNegativeAfter(i) ==
    CHOOSE k \in NegativeAfter(i) : \A j \in NegativeAfter(i) : k <= j

\* C6: after any number of samples, sunrise is the first sample scanned with
\* altitude > 0 (None without one) and sunset the first sample after it with
\* altitude < 0 (None without one); so neither is a sample of altitude 0 and
\* neither changes once recorded.
C6_FirstCrossings ==
    /\ Len(samples) = minute
    /\ IF Positive = {} THEN sunrise = None /\ sunset = None
       ELSE /\ sunrise # None
            /\ sunrise.minute = FirstPositive - 1
            /\ IF NegativeAfter(FirstPositive) = {} THEN sunset = None
               ELSE /\ sunset # None
                    /\ sunset.minute = FirstNegativeAfter(FirstPositive) - 1

\* a day that starts at altitude 0, has a 0 between sunrise and sunset and a
\* sample after the sunset
C6_Witness ==
    /\ fs_pc = "returned"
    /\ samples[1] = 0
    /\ sunrise # None
    /\ sunset # None
    /\ \E i \in 1..Len(samples) :
        samples[i] = 0 /\ sunrise.minute < i - 1 /\ i - 1 < sunset.minute
    /\ sunset.minute < Len(samples) - 1

\* C7: a returned sunrise is an earlier instant than the returned sunset.
C7_SunriseBeforeSunset ==
    (fs_pc = "returned" /\ sunrise # None /\ sunset # None)
        => sunrise.utc < sunset.utc

AllNegative == \A i \in 1..Len(samples) : samples[i] < 0
AllPositive == \A i \in 1..Len(samples) : samples[i] > 0

C9_BracketsMaximum ==
    (fs_pc = "returned" /\ sunrise # None /\ sunset # None) =>
        \E m \in 1..Len(samples) :
            /\ \A k \in 1..Len(samples) : samples[k] <= samples[m]
            /\ sunrise.minute <= m - 1
            /\ m - 1 < sunset.minute

====
